---- MODULE Spec2Model ----
(***************************************************************************)
(* Model of gedcom_reader.py: load_gedcom (the line-by-line extractor) and *)
(* find_persons_less_than_x_meioses_from_poi (the pruner).                 *)
(*                                                                         *)
(* A GEDCOM id, a name, a sex and Python's None are strings.  A registry   *)
(* entry gedcom_dict[id] is the Python list [name, sex, placeholder, poi], *)
(* here the tuple <<name, sex, placeholder, poi>> (1-based).  A parentage  *)
(* entry trio_dict[id] is the tuple <<mother, father>>.  A dict is a       *)
(* function whose DOMAIN is the set of its keys.                           *)
(***************************************************************************)
EXTENDS Integers, Sequences, FiniteSets, TLC

VARIABLES
    pc,               \* "reading" | "loaded" | "failed" | "pruned" | "prune_failed"
    nlines,           \* number of input lines consumed by the for loop
    mother,           \* load_gedcom locals
    father,
    poi_ids,
    placeholders_used,
    adopted,
    current_person,
    gedcom_dict,
    trio_dict,
    ret,              \* what load_gedcom returned: <<>> or <<gedcom_dict, trio_dict, poi>>
    x,                \* the pruner's argument x (0 before the call)
    new_trio_dict,    \* what the pruner returned (empty dicts before the call
    new_gedcom_dict,  \*   and when it raised)
    error,            \* the exception load_gedcom raised, None when none
    matched,          \* history: ids whose NAME line contained poi_name
    file_ids,         \* history: ids read from the input file
    chil_lines,       \* history: the CHIL lines read, each with the locals
                      \*   mother and father and the family history after it,
                      \*   and whether it was skipped
    fam,              \* history of the lines since the last FAM line (or the
                      \*   start): the last WIFE and HUSB ids, the placeholders
                      \*   synthesized as mother and as father
    last_assign       \* history: per id, the parentage written by the last INDI
                      \*   line for it or the last CHIL line for it not skipped

vars == <<pc, nlines, mother, father, poi_ids, placeholders_used, adopted,
          current_person, gedcom_dict, trio_dict, ret, x, new_trio_dict,
          new_gedcom_dict, error, matched, file_ids, chil_lines, fam,
          last_assign>>

----------------------------------------------------------------------------
(* Bounds *)

MaxLines == 5
MaxX == 2

----------------------------------------------------------------------------
(* Values *)

None == "<None>"

EmptyDict == [k \in {} |-> None]

\* d[k] = v on a Python dict
Put(d, k, v) == [k2 \in (DOMAIN d) \cup {k} |-> IF k2 = k THEN v ELSE d[k2]]

\* ids that the \w+ group of the regular expressions can capture
FileIds == {"I1", "I2", "Placeholder1"}

poi_name == "Jane"

\* DATA of NAME lines, and the Python test  poi_name in data
NameData == {"Jane Doe", "John Doe"}

PoiNameIn(data) == data \in {"Jane Doe"}

SexData == {"M", "F", "X"}

IdRef(i) == "@" \o i \o "@"

\* 'Placeholder%d' % placeholders_used
PlaceholderName(n) == "Placeholder" \o ToString(n)

----------------------------------------------------------------------------
(* Input lines.  A line is what the two regular expressions make of it:    *)
(* ok = the line matched, id = group 3, tag = group 4, data = group 6,     *)
(* ref = group 1 of the match of @(\w+)@ on data (None when no match).     *)

RefOf(data) ==
    IF \E i \in FileIds : data = IdRef(i)
    THEN CHOOSE i \in FileIds : data = IdRef(i)
    ELSE None

Line(id, tag, data) ==
    [ok |-> TRUE, id |-> id, tag |-> tag, data |-> data, ref |-> RefOf(data)]

Malformed == [ok |-> FALSE, id |-> None, tag |-> None, data |-> None, ref |-> None]

Lines ==
    {Malformed}
    \cup {Line(i, "INDI", None) : i \in FileIds \cup {None}}
    \cup {Line("I1", "INDI", "John Doe")}
    \cup {Line("F1", "FAM", None), Line("F1", "FAM", "John Doe")}
    \cup {Line(None, t, IdRef(i)) : t \in {"HUSB", "WIFE", "CHIL"}, i \in FileIds}
    \cup {Line(None, "CHIL", "John Doe")}
    \cup {Line(None, "NAME", d) : d \in NameData \cup {IdRef("I1")}}
    \cup {Line(None, "SEX", d) : d \in SexData}
    \cup {Line(None, "PEDI", d) : d \in {"adopted", "birth"}}
    \cup {Line(None, "FAMS", IdRef("I1")), Line(None, "TRLR", None)}

\* The branch of the loop body that a line takes
Dispatch_SexGuarded(line) ==
    IF ~line.ok THEN "skip"
    ELSE IF line.data = None
         THEN IF line.tag = "INDI" THEN "INDI"
              ELSE IF line.tag = "FAM" THEN "FAM"
              ELSE "ignored"
         ELSE IF line.ref # None
              THEN IF line.tag = "HUSB" THEN "HUSB"
                   ELSE IF line.tag = "WIFE" THEN "WIFE"
                   ELSE IF line.tag = "CHIL" THEN "CHIL"
                   ELSE "ignored"
              ELSE IF line.tag = "NAME" /\ current_person # None THEN "NAME"
              ELSE IF line.tag = "SEX" /\ current_person # None THEN "SEX"
              ELSE IF line.tag = "PEDI" /\ line.data = "adopted" THEN "PEDI"
              ELSE "ignored"

Dispatch(line) ==
    IF ~line.ok THEN "skip"
    ELSE IF line.data = None
         THEN IF line.tag = "INDI" THEN "INDI"
              ELSE IF line.tag = "FAM" THEN "FAM"
              ELSE "ignored"
         ELSE IF line.ref # None
              THEN IF line.tag = "HUSB" THEN "HUSB"
                   ELSE IF line.tag = "WIFE" THEN "WIFE"
                   ELSE IF line.tag = "CHIL" THEN "CHIL"
                   ELSE "ignored"
              ELSE IF line.tag = "NAME" /\ current_person # None THEN "NAME"
              ELSE IF line.tag = "SEX" THEN "SEX"
              ELSE IF line.tag = "PEDI" /\ line.data = "adopted" THEN "PEDI"
              ELSE "ignored"

----------------------------------------------------------------------------
(* load_gedcom *)

NewFam == [wife |-> None, husb |-> None, ph_mother |-> {}, ph_father |-> {}]

Init ==
    /\ pc = "reading"
    /\ nlines = 0
    /\ mother = None
    /\ father = None
    /\ poi_ids = <<>>
    /\ placeholders_used = 0
    /\ adopted = {}
    /\ current_person = None
    /\ gedcom_dict = EmptyDict
    /\ trio_dict = EmptyDict
    /\ ret = <<>>
    /\ x = 0
    /\ new_trio_dict = EmptyDict
    /\ new_gedcom_dict = EmptyDict
    /\ error = None
    /\ matched = {}
    /\ file_ids = {}
    /\ chil_lines = {}
    /\ fam = NewFam
    /\ last_assign = EmptyDict

prunerVars == <<ret, x, new_trio_dict, new_gedcom_dict>>

\* the for loop takes the next line of the file
NextLine(line, branch) ==
    /\ pc = "reading"
    /\ nlines < MaxLines
    /\ line \in Lines
    /\ Dispatch(line) = branch
    /\ nlines' = nlines + 1

\* the locals of load_gedcom that one line can change
parseState == <<mother, father, poi_ids, placeholders_used, adopted,
                current_person, gedcom_dict, trio_dict>>

\* if m is None: continue
SkipStep_Aborts(line) ==
    /\ NextLine(line, "skip")
    /\ pc' = "failed"
    /\ error' = "AttributeError"
    /\ UNCHANGED <<parseState, matched, file_ids, chil_lines, fam, last_assign>>
    /\ UNCHANGED prunerVars

SkipStep(line) ==
    /\ NextLine(line, "skip")
    /\ UNCHANGED <<pc, error, parseState, matched, file_ids, chil_lines, fam, last_assign>>
    /\ UNCHANGED prunerVars

ReadSkip == \E line \in Lines : SkipStep(line)

\* a tag/data combination that no branch handles
IgnoredStep(line) ==
    /\ NextLine(line, "ignored")
    /\ UNCHANGED <<pc, error, parseState, matched, file_ids, chil_lines, fam, last_assign>>
    /\ UNCHANGED prunerVars

ReadIgnored == \E line \in Lines : IgnoredStep(line)

ReadINDI ==
    \E line \in Lines :
        /\ NextLine(line, "INDI")
        /\ gedcom_dict' = Put(gedcom_dict, line.id, <<"", "U", FALSE, FALSE>>)
        /\ trio_dict' = Put(trio_dict, line.id, <<None, None>>)
        /\ current_person' = line.id
        /\ file_ids' = IF line.id = None THEN file_ids ELSE file_ids \cup {line.id}
        /\ last_assign' = Put(last_assign, line.id, <<None, None>>)
        /\ UNCHANGED <<pc, error, mother, father, poi_ids, placeholders_used, adopted, matched,
                       chil_lines, fam>>
        /\ UNCHANGED prunerVars

ReadFAM_NoReset ==
    \E line \in Lines :
        /\ NextLine(line, "FAM")
        /\ UNCHANGED <<mother, father>>
        /\ fam' = NewFam
        /\ UNCHANGED <<pc, error, poi_ids, placeholders_used, adopted, current_person,
                       gedcom_dict, trio_dict, matched, file_ids, chil_lines, last_assign>>
        /\ UNCHANGED prunerVars

ReadFAM ==
    \E line \in Lines :
        /\ NextLine(line, "FAM")
        /\ mother' = None
        /\ father' = None
        /\ fam' = NewFam
        /\ UNCHANGED <<pc, error, poi_ids, placeholders_used, adopted, current_person,
                       gedcom_dict, trio_dict, matched, file_ids, chil_lines, last_assign>>
        /\ UNCHANGED prunerVars

ReadHUSB ==
    \E line \in Lines :
        /\ NextLine(line, "HUSB")
        /\ father' = line.ref
        /\ file_ids' = file_ids \cup {line.ref}
        /\ fam' = [fam EXCEPT !.husb = line.ref]
        /\ UNCHANGED <<pc, error, mother, poi_ids, placeholders_used, adopted,
                       current_person, gedcom_dict, trio_dict, matched, chil_lines,
                       last_assign>>
        /\ UNCHANGED prunerVars

ReadWIFE ==
    \E line \in Lines :
        /\ NextLine(line, "WIFE")
        /\ mother' = line.ref
        /\ file_ids' = file_ids \cup {line.ref}
        /\ fam' = [fam EXCEPT !.wife = line.ref]
        /\ UNCHANGED <<pc, error, father, poi_ids, placeholders_used, adopted,
                       current_person, gedcom_dict, trio_dict, matched, chil_lines,
                       last_assign>>
        /\ UNCHANGED prunerVars

\* The CHIL branch for a child that is not adopted: the locals and dicts
\* after the two "is None" blocks and the final trio_dict[id] assignment.
ChilMotherUsed == IF mother = None THEN placeholders_used + 1 ELSE placeholders_used

ChilMother == IF mother = None THEN PlaceholderName(ChilMotherUsed) ELSE mother

ChilFatherUsed == IF father = None THEN ChilMotherUsed + 1 ELSE ChilMotherUsed

ChilFather_NoPlaceholder == father

ChilFather == IF father = None THEN PlaceholderName(ChilFatherUsed) ELSE father

ChilGedcom ==
    LET g1 == IF mother = None
              THEN Put(gedcom_dict, ChilMother, <<ChilMother, "F", TRUE, FALSE>>)
              ELSE gedcom_dict
    IN  IF father = None
        THEN Put(g1, ChilFather, <<ChilFather, "M", TRUE, FALSE>>)
        ELSE g1

ChilTrio(id) ==
    LET t1 == IF mother = None
              THEN Put(trio_dict, ChilMother, <<None, None>>)
              ELSE trio_dict
        t2 == IF father = None
              THEN Put(t1, ChilFather, <<None, None>>)
              ELSE t1
    IN  Put(t2, id, <<ChilMother, ChilFather>>)

ChilSkipped_Never(id) == FALSE

ChilSkipped(id) == id \in adopted

\* the history of the family record after a CHIL line that is not skipped
ChilFam ==
    [fam EXCEPT !.ph_mother = IF mother = None THEN @ \cup {ChilMother} ELSE @,
                !.ph_father = IF father = None THEN @ \cup {ChilFather} ELSE @]

\* the entry of chil_lines for a CHIL line: the child, the locals mother and
\* father and the family history after the line, whether it was skipped
ChilLine(id) ==
    [id |-> id, mother |-> mother', father |-> father', fam |-> fam',
     skipped |-> ChilSkipped(id)]

ChilStep_FreshEachTime(line) ==
    /\ NextLine(line, "CHIL")
    /\ file_ids' = file_ids \cup {line.ref}
    /\ IF ChilSkipped(line.ref)
       THEN UNCHANGED <<mother, father, placeholders_used, gedcom_dict, trio_dict,
                        fam, last_assign>>
       ELSE /\ placeholders_used' = ChilFatherUsed
            /\ mother' = mother
            /\ father' = father
            /\ gedcom_dict' = ChilGedcom
            /\ trio_dict' = ChilTrio(line.ref)
            /\ fam' = ChilFam
            /\ last_assign' = Put(last_assign, line.ref, <<ChilMother, ChilFather>>)
    /\ chil_lines' = chil_lines \cup {ChilLine(line.ref)}
    /\ UNCHANGED <<pc, error, poi_ids, adopted, current_person, matched>>
    /\ UNCHANGED prunerVars

ChilStep(line) ==
    /\ NextLine(line, "CHIL")
    /\ file_ids' = file_ids \cup {line.ref}
    /\ IF ChilSkipped(line.ref)
       THEN UNCHANGED <<mother, father, placeholders_used, gedcom_dict, trio_dict,
                        fam, last_assign>>
       ELSE /\ placeholders_used' = ChilFatherUsed
            /\ mother' = ChilMother
            /\ father' = ChilFather
            /\ gedcom_dict' = ChilGedcom
            /\ trio_dict' = ChilTrio(line.ref)
            /\ fam' = ChilFam
            /\ last_assign' = Put(last_assign, line.ref, <<ChilMother, ChilFather>>)
    /\ chil_lines' = chil_lines \cup {ChilLine(line.ref)}
    /\ UNCHANGED <<pc, error, poi_ids, adopted, current_person, matched>>
    /\ UNCHANGED prunerVars

ReadCHIL == \E line \in Lines : ChilStep(line)

NameEntry(data) ==
    LET e == gedcom_dict[current_person]
    IN  <<data, e[2], e[3], IF PoiNameIn(data) THEN TRUE ELSE e[4]>>

NamePoiIds(data) ==
    IF PoiNameIn(data) THEN Append(poi_ids, current_person) ELSE poi_ids

ReadNAME ==
    \E line \in Lines :
        /\ NextLine(line, "NAME")
        /\ gedcom_dict' = Put(gedcom_dict, current_person, NameEntry(line.data))
        /\ poi_ids' = NamePoiIds(line.data)
        /\ matched' = IF PoiNameIn(line.data)
                      THEN matched \cup {current_person} ELSE matched
        /\ UNCHANGED <<pc, error, mother, father, placeholders_used, adopted,
                       current_person, trio_dict, file_ids, chil_lines, fam, last_assign>>
        /\ UNCHANGED prunerVars

\* gedcom_dict[current_person] raises KeyError when no INDI line has been
\* read; the except clause re-raises and load_gedcom returns nothing.
SexRaises == current_person \notin DOMAIN gedcom_dict

SexEntry(data) ==
    LET e == gedcom_dict[current_person]
    IN  <<e[1], data, e[3], e[4]>>

SexStep(line) ==
        /\ NextLine(line, "SEX")
        /\ IF SexRaises
           THEN /\ pc' = "failed"
                /\ error' = "KeyError"
                /\ UNCHANGED gedcom_dict
           ELSE /\ gedcom_dict' = Put(gedcom_dict, current_person, SexEntry(line.data))
                /\ UNCHANGED <<pc, error>>
        /\ UNCHANGED <<mother, father, poi_ids, placeholders_used, adopted,
                       current_person, trio_dict, matched, file_ids, chil_lines, fam,
                       last_assign>>
        /\ UNCHANGED prunerVars

ReadSEX == \E line \in Lines : SexStep(line)

ReadPEDI ==
    \E line \in Lines :
        /\ NextLine(line, "PEDI")
        /\ adopted' = adopted \cup {current_person}
        /\ UNCHANGED <<pc, error, mother, father, poi_ids, placeholders_used,
                       current_person, gedcom_dict, trio_dict, matched, file_ids, chil_lines,
                       fam, last_assign>>
        /\ UNCHANGED prunerVars

\* ''' Check if we found exactly one person of interest '''
PoiCheckFails_OnlyZero == Len(poi_ids) = 0

PoiCheckFails == Len(poi_ids) # 1

EndOfInput ==
    /\ pc = "reading"
    /\ IF PoiCheckFails
       THEN /\ pc' = "failed"
            /\ error' = "Expected to find one person"
            /\ UNCHANGED ret
       ELSE /\ pc' = "loaded"
            /\ ret' = <<gedcom_dict, trio_dict, poi_ids[1]>>
            /\ UNCHANGED error
    /\ UNCHANGED <<nlines, mother, father, poi_ids, placeholders_used, adopted,
                   current_person, gedcom_dict, trio_dict, x, new_trio_dict,
                   new_gedcom_dict, matched, file_ids, chil_lines, fam, last_assign>>

----------------------------------------------------------------------------
(* find_persons_less_than_x_meioses_from_poi(trio_dict, gedcom_dict, x, poi) *)

\* the value bellman_ford gives a node it cannot reach (float inf)
inf == 1000000

\* gedcom_ids = trio_dict.keys()
gedcom_ids(t) == DOMAIN t

\* gedcom_ids.index(...) raises ValueError for an id that is not a key of
\* trio_dict: the POI, or the mother or father of a child with parents
IndexRaises(t, poi) ==
    \/ poi \notin gedcom_ids(t)
    \/ \E child \in gedcom_ids(t) :
          /\ t[child][1] # None
          /\ \/ t[child][1] \notin gedcom_ids(t)
             \/ t[child][2] \notin gedcom_ids(t)

\* the nonzero cells (row, col) of adj_matrix
adj_matrix(t) ==
    UNION {{<<child, t[child][1]>>, <<child, t[child][2]>>,
            <<t[child][1], child>>, <<t[child][2], child>>} :
           child \in {c \in gedcom_ids(t) : t[c][1] # None}}

\* ids at most k edges away from poi
RECURSIVE Within(_, _, _)
Within(t, poi, k) ==
    IF k = 0 THEN {poi}
    ELSE LET W == Within(t, poi, k - 1)
         IN  W \cup {v \in gedcom_ids(t) : \E u \in W : <<u, v>> \in adj_matrix(t)}

\* bellman_ford(adj_matrix, unweighted=True, indices=[poi_index])[0]
meioses(t, poi) ==
    LET n == Cardinality(gedcom_ids(t))
    IN  [v \in gedcom_ids(t) |->
            IF v \in Within(t, poi, n)
            THEN CHOOSE k \in 0..n :
                    /\ v \in Within(t, poi, k)
                    /\ \A j \in 0..(k - 1) : v \notin Within(t, poi, j)
            ELSE inf]

\* if meioses[i] < x: gedcom_ids_to_keep.append(gedcom_id)
Near_Inclusive(d, xx) == d <= xx

Near_Short(d, xx) == d + 1 < xx

Near_Far(d, xx) == d <= xx + 1

Near_Positive(d, xx) == 0 < d /\ d < xx

Near(d, xx) == d < xx

gedcom_ids_to_keep(t, poi, xx) ==
    LET d == meioses(t, poi)
    IN  {v \in gedcom_ids(t) : Near(d[v], xx)}

\* One iteration of the final loop.  acc = [g |-> new_gedcom_dict,
\* t |-> new_trio_dict, err |-> a KeyError was raised]
LoneParentEntry_Fresh(g, parent) == <<parent, "U", TRUE, FALSE>>

LoneParentEntry(g, parent) == g[parent]

LoneParentTrio == <<None, None>>

KeptTrio_NoCollapse(t, keep, id) == t[id]

KeptTrio_AlwaysCollapse(t, keep, id) == <<None, None>>

KeptTrio(t, keep, id) ==
    IF t[id][1] \in keep \/ t[id][2] \in keep THEN t[id] ELSE <<None, None>>

RepairStep(acc, id, t, g, keep) ==
    LET mo == t[id][1]
        fa == t[id][2]
        failed == [g |-> acc.g, t |-> acc.t, err |-> TRUE]
    IN  IF acc.err THEN acc
        ELSE IF id \notin DOMAIN g THEN failed
        ELSE LET g1 == Put(acc.g, id, g[id])
             IN  IF mo \in keep
                 THEN IF fa \notin keep
                      THEN IF fa \notin DOMAIN g THEN failed
                           ELSE [g |-> Put(g1, fa, LoneParentEntry(g, fa)),
                                 t |-> Put(Put(acc.t, fa, LoneParentTrio),
                                           id, KeptTrio(t, keep, id)),
                                 err |-> FALSE]
                      ELSE [g |-> g1,
                            t |-> Put(acc.t, id, KeptTrio(t, keep, id)),
                            err |-> FALSE]
                 ELSE IF fa \in keep
                 THEN IF mo \notin DOMAIN g THEN failed
                      ELSE [g |-> Put(g1, mo, LoneParentEntry(g, mo)),
                            t |-> Put(Put(acc.t, mo, LoneParentTrio),
                                      id, KeptTrio(t, keep, id)),
                            err |-> FALSE]
                 ELSE [g |-> g1,
                       t |-> Put(acc.t, id, KeptTrio(t, keep, id)),
                       err |-> FALSE]

\* for gedcom_id in gedcom_ids_to_keep: ...   (the dicts built do not depend
\* on the order in which the ids are visited)
RECURSIVE RepairLoop(_, _, _, _, _)
RepairLoop(acc, todo, t, g, keep) ==
    IF todo = {} THEN acc
    ELSE LET id == CHOOSE v \in todo : TRUE
         IN  RepairLoop(RepairStep(acc, id, t, g, keep), todo \ {id}, t, g, keep)

\* the whole call: [g, t, err]
Pruned(t, g, xx, poi) ==
    IF IndexRaises(t, poi)
    THEN [g |-> EmptyDict, t |-> EmptyDict, err |-> TRUE]
    ELSE LET keep == gedcom_ids_to_keep(t, poi, xx)
         IN  RepairLoop([g |-> EmptyDict, t |-> EmptyDict, err |-> FALSE],
                        keep, t, g, keep)

\* The argument dicts after the call, r being what Pruned built: the function
\* assigns only into the two dicts it creates itself (new_gedcom_dict = {},
\* new_trio_dict = {}), never into trio_dict or gedcom_dict.
TrioArgAfter_InPlace(t, r) == IF r.err THEN t ELSE r.t

TrioArgAfter(t, r) == t

GedcomArgAfter(g, r) == g

\* main: the pruner is called with what load_gedcom returned
Prune ==
    /\ pc = "loaded"
    /\ \E xx \in 1..MaxX :
          LET r == Pruned(ret[2], ret[1], xx, ret[3])
          IN  /\ x' = xx
              /\ trio_dict' = TrioArgAfter(trio_dict, r)
              /\ gedcom_dict' = GedcomArgAfter(gedcom_dict, r)
              /\ ret' = <<gedcom_dict', trio_dict', ret[3]>>
              /\ IF r.err
                 THEN /\ pc' = "prune_failed"
                      /\ UNCHANGED <<new_trio_dict, new_gedcom_dict>>
                 ELSE /\ pc' = "pruned"
                      /\ new_trio_dict' = r.t
                      /\ new_gedcom_dict' = r.g
    /\ UNCHANGED <<nlines, mother, father, poi_ids, placeholders_used, adopted,
                   current_person, error, matched, file_ids, chil_lines, fam,
                   last_assign>>

Next ==
    \/ Prune
    \/ ReadSkip
    \/ ReadIgnored
    \/ ReadINDI
    \/ ReadFAM
    \/ ReadHUSB
    \/ ReadWIFE
    \/ ReadCHIL
    \/ ReadNAME
    \/ ReadSEX
    \/ ReadPEDI
    \/ EndOfInput

Spec == Init /\ [][Next]_vars

----------------------------------------------------------------------------
(* The tables the properties speak of *)

Loaded == pc \in {"loaded", "pruned", "prune_failed"}

Returned == pc = "pruned"

\* the pre-pruning registry, parentage table and POI (what load_gedcom returned)
PreRegistry == ret[1]

PreTable == ret[2]

Poi == ret[3]

BothOrNeither(t) ==
    \A k \in DOMAIN t : (t[k][1] = None) <=> (t[k][2] = None)

\* The graph of the parentage table: an undirected edge between a child and
\* each of its parents, for every child with both parents present
Linked(t, u, v) ==
    \/ u \in DOMAIN t /\ t[u][1] # None /\ t[u][2] # None /\ v \in {t[u][1], t[u][2]}
    \/ v \in DOMAIN t /\ t[v][1] # None /\ t[v][2] # None /\ u \in {t[v][1], t[v][2]}

\* breadth-first search from a frontier at the given depth: the depth at
\* which v is found, or -1 when v is not reachable
RECURSIVE Bfs(_, _, _, _, _)
Bfs(t, frontier, visited, v, depth) ==
    IF v \in frontier THEN depth
    ELSE IF frontier = {} THEN -1
    ELSE LET nf == {w \in (DOMAIN t) \ visited : \E u \in frontier : Linked(t, u, w)}
         IN  Bfs(t, nf, visited \cup nf, v, depth + 1)

\* shortest parent-child-edge distance from the POI in the pre-pruning graph
Distance(v) == Bfs(PreTable, {Poi}, {Poi}, v, 0)

Closer(v) == Distance(v) >= 0 /\ Distance(v) < x

\* the kept set K
Kept == {v \in DOMAIN PreTable : Closer(v)}

Parents(t, v) == {t[v][1], t[v][2]} \ {None}

\* ids given to the placeholders synthesized so far
PlaceholderIds == {PlaceholderName(k) : k \in 1..placeholders_used}

\* An input without oddities: no id of the file is a placeholder id, every
\* id with a parentage entry has a registry entry and the other way round,
\* and nobody is their own parent.
PlainInput ==
    /\ PlaceholderIds \cap file_ids = {}
    /\ DOMAIN trio_dict = DOMAIN gedcom_dict
    /\ \A k \in DOMAIN trio_dict : k \notin Parents(trio_dict, k)

----------------------------------------------------------------------------
(* C1: every entry of the parentage table returned by load_gedcom, and     *)
(* every entry of the parentage table returned by the pruner, has mother   *)
(* and father both absent or both present.                                 *)
C1_EitherBothOrNeither ==
    /\ Loaded => BothOrNeither(PreTable)
    /\ Returned => BothOrNeither(new_trio_dict)

C1_Witness ==
    /\ Returned
    /\ \E k \in DOMAIN PreTable : PreTable[k][1] # None
    /\ \E k \in DOMAIN new_trio_dict : new_trio_dict[k][1] # None
    /\ \E k \in DOMAIN new_trio_dict : new_trio_dict[k][1] = None

(* C2: in the pruner's output, every mother id and father id of an entry   *)
(* of the pruned parentage table is a key of the pruned registry.          *)
C2_RepairComplete ==
    Returned =>
        \A k \in DOMAIN new_trio_dict :
            Parents(new_trio_dict, k) \subseteq DOMAIN new_gedcom_dict

C2_Witness ==
    /\ Returned
    /\ \E k \in DOMAIN new_trio_dict : Parents(new_trio_dict, k) # {}
    /\ \E k \in Kept : Parents(PreTable, k) # {} /\ Parents(new_trio_dict, k) = {}

(* C3 as stated: no individual at distance >= maxDistance from the POI    *)
(* (or unreachable) is a key of the pruned registry.  Stated for plain     *)
(* inputs only, so that a violation owes nothing to odd input.             *)
C3_NoFarIndividual ==
    (Returned /\ PlainInput) => \A v \in DOMAIN new_gedcom_dict : Closer(v)

\* v is a parent of a kept individual whose other parent is kept
CoParentOfKept(v) ==
    \E c \in Kept :
        \/ PreTable[c][1] = v /\ PreTable[c][2] \in Kept
        \/ PreTable[c][2] = v /\ PreTable[c][1] \in Kept

(* C3 amended: an individual at distance >= maxDistance is a key of the    *)
(* pruned registry only if it is the mother or father of a kept individual *)
(* whose other parent is kept; its distance is then exactly maxDistance.   *)
C3_FarOnlyAsCoParent ==
    Returned =>
        \A v \in DOMAIN new_gedcom_dict :
            ~Closer(v) => CoParentOfKept(v) /\ Distance(v) = x

C3_Witness ==
    /\ Returned
    /\ \E v \in DOMAIN new_gedcom_dict : Distance(v) = x
    /\ PlainInput

(* C4: every individual of the pre-pruning parentage table at distance     *)
(* < maxDistance from the POI is in the pruned registry with the registry  *)
(* entry it had before pruning.                                            *)
C4_NearIndividualsKept ==
    Returned =>
        \A v \in DOMAIN PreTable :
            Closer(v) => /\ v \in DOMAIN new_gedcom_dict
                         /\ new_gedcom_dict[v] = PreRegistry[v]

C4_Witness ==
    /\ Returned
    /\ \E v \in Kept : v # Poi /\ new_gedcom_dict[v][1] # ""
    /\ \E v \in DOMAIN PreTable : ~Closer(v)

(* C5: when zero, or two or more, individuals have a NAME matching the POI *)
(* substring, load_gedcom fails and returns nothing.                       *)
C5_PoiCardinalityError ==
    (pc # "reading" /\ Cardinality(matched) # 1) => (pc = "failed" /\ ret = <<>>)

C5_Witness ==
    /\ pc = "failed"
    /\ Cardinality(matched) >= 2
    /\ ~SexRaises

(* C6 as stated: when exactly one individual has a NAME matching the POI   *)
(* substring, load_gedcom succeeds, returns that individual's id as the    *)
(* POI, and that individual is the only registry entry flagged             *)
(* isPersonOfInterest.                                                     *)
C6_PoiSuccess ==
    (pc # "reading" /\ Cardinality(matched) = 1 /\ ~SexRaises) =>
        /\ pc # "failed"
        /\ Poi \in matched
        /\ {k \in DOMAIN PreRegistry : PreRegistry[k][4]} = matched

(* C7 as stated: no identifier given to a synthesized placeholder equals   *)
(* an identifier that occurs in the input file.                            *)
C7_PlaceholderDisjoint == PlaceholderIds \cap file_ids = {}

(* C8 as stated: after a successful extraction, an individual marked       *)
(* adopted that is listed as CHIL in a family record does not have that    *)
(* family's mother/father as its parentage, whatever the order of the PEDI *)
(* and CHIL lines.                                                         *)
C8_AdoptedNotChildOfFamily ==
    (pc = "loaded" /\ PlaceholderIds \cap file_ids = {}) =>
        \A e \in chil_lines :
            (e.id \in adopted /\ e.id \in DOMAIN trio_dict /\ e.mother # None) =>
                trio_dict[e.id] # <<e.mother, e.father>>

\* a step does not give id a mother or father: its parentage entry stays as
\* it is, or is (re)set to absent/absent
NoParentsGiven(id) ==
    id \in DOMAIN trio_dict' =>
        \/ trio_dict'[id] = <<None, None>>
        \/ id \in DOMAIN trio_dict /\ trio_dict'[id] = trio_dict[id]

(* C8 amended: once an individual is marked adopted (the PEDI line has     *)
(* been read), no later line gives it a mother or father; a CHIL line      *)
(* naming it leaves its parentage entry unchanged.                         *)
C8_AdoptedGetsNoParentsLater ==
    [][\A id \in adopted : NoParentsGiven(id)]_vars

C8_Witness ==
    \E e \in chil_lines :
        /\ e.skipped
        /\ e.mother # None
        /\ e.id \in DOMAIN trio_dict
        /\ trio_dict[e.id] = <<None, None>>

\* v is kept and exactly one of its two parents is kept
LoneParentCase(v) ==
    /\ v \in Kept
    /\ PreTable[v][1] # None
    /\ ~((PreTable[v][1] \in Kept) <=> (PreTable[v][2] \in Kept))

DiscardedParent(v) ==
    IF PreTable[v][1] \in Kept THEN PreTable[v][2] ELSE PreTable[v][1]

(* C9 as stated: for every kept individual v with exactly one parent kept, *)
(* the output has a newly synthesized placeholder (isPlaceholder true, sex *)
(* of the missing role, an id that is in neither input table, empty        *)
(* parentage), v's output parentage pairs the kept parent with it, and the *)
(* discarded parent is not in the output.  Stated for plain inputs.        *)
C9_LoneParentPlaceholder ==
    (Returned /\ PlainInput) =>
        \A v \in DOMAIN PreTable :
            LoneParentCase(v) =>
                /\ DiscardedParent(v) \notin DOMAIN new_gedcom_dict
                /\ \E ph \in (DOMAIN new_gedcom_dict) \ (DOMAIN PreTable \cup DOMAIN PreRegistry) :
                      /\ new_gedcom_dict[ph][3]
                      /\ new_trio_dict[ph] = <<None, None>>
                      /\ IF PreTable[v][1] \in Kept
                         THEN /\ new_gedcom_dict[ph][2] = "M"
                              /\ new_trio_dict[v] = <<PreTable[v][1], ph>>
                         ELSE /\ new_gedcom_dict[ph][2] = "F"
                              /\ new_trio_dict[v] = <<ph, PreTable[v][2]>>

(* C9 amended: for every kept individual v with exactly one parent kept,   *)
(* the output contains the discarded parent itself, with the registry      *)
(* entry it had before pruning and empty parentage, and v's output         *)
(* parentage is its original (mother, father); the pruner synthesizes no   *)
(* individual (every output id is an id of the input tables).              *)
C9_LoneParentRetained ==
    Returned =>
        /\ DOMAIN new_gedcom_dict \subseteq DOMAIN PreRegistry
        /\ DOMAIN new_trio_dict \subseteq DOMAIN PreTable
        /\ \A v \in DOMAIN PreTable :
              LoneParentCase(v) =>
                  /\ DiscardedParent(v) \in DOMAIN new_gedcom_dict
                  /\ new_gedcom_dict[DiscardedParent(v)] = PreRegistry[DiscardedParent(v)]
                  /\ new_trio_dict[DiscardedParent(v)] = <<None, None>>
                  /\ new_trio_dict[v] = PreTable[v]

C9_Witness ==
    /\ Returned
    /\ PlainInput
    /\ \E v \in DOMAIN PreTable : LoneParentCase(v)

(* C10 as stated: on every result of a successful load_gedcom and every    *)
(* maxDistance >= 1 the pruner returns and does not raise.                 *)
C10_PrunerTotal ==
    PlaceholderIds \cap file_ids = {} => pc # "prune_failed"

(* C15: for every kept individual v with original parentage (m, f), if     *)
(* both m and f are kept the output parentage of v is exactly (m, f), and  *)
(* if neither is kept it is (absent, absent).                              *)
C15_BothOrNeitherKept ==
    Returned =>
        \A v \in Kept :
            /\ (PreTable[v][1] \in Kept /\ PreTable[v][2] \in Kept) =>
                   new_trio_dict[v] = PreTable[v]
            /\ (PreTable[v][1] \notin Kept /\ PreTable[v][2] \notin Kept) =>
                   new_trio_dict[v] = <<None, None>>

\* the POI with both parents kept, and each parent a root of the output
C15_Witness ==
    /\ Returned
    /\ PlainInput
    /\ PreTable[Poi][1] \in Kept \ {Poi}
    /\ PreTable[Poi][2] \in Kept \ {Poi}
    /\ new_trio_dict[Poi] = PreTable[Poi]
    /\ new_trio_dict[PreTable[Poi][1]] = <<None, None>>
    /\ new_trio_dict[PreTable[Poi][2]] = <<None, None>>

\* the sex values of the data model; the code writes Unknown as "U"
SexDomain == {"M", "F", "U"}

(* C16 as stated: in every state of the extraction and in its result the   *)
(* sex field of every registry entry is one of M, F or Unknown, whatever   *)
(* DATA the SEX lines carry.                                               *)
C16_SexDomain ==
    \A k \in DOMAIN gedcom_dict : gedcom_dict[k][2] \in SexDomain

(* C17: every individual of the pruner's output registry is at distance at *)
(* most maxDistance from the POI; one at distance exactly maxDistance is   *)
(* the mother or father of a kept individual whose other parent is kept,   *)
(* has output parentage (absent, absent) and its original registry entry.  *)
C17_ShapeOfPrunedSet ==
    Returned =>
        \A v \in DOMAIN new_gedcom_dict :
            /\ Distance(v) >= 0
            /\ Distance(v) <= x
            /\ Distance(v) = x =>
                  /\ CoParentOfKept(v)
                  /\ new_trio_dict[v] = <<None, None>>
                  /\ new_gedcom_dict[v] = PreRegistry[v]

C17_Witness ==
    /\ Returned
    /\ PlainInput
    /\ x = MaxX
    /\ \E v \in DOMAIN new_gedcom_dict :
          /\ Distance(v) = x
          /\ new_trio_dict[v] = <<None, None>>
          /\ new_gedcom_dict[v] = PreRegistry[v]

(* C18: whenever the pruner returns, the POI id is a key of the pruned     *)
(* registry and of the pruned parentage table, and the two have the same   *)
(* key set.                                                                *)
C18_PoiSurvives ==
    Returned =>
        /\ Poi \in DOMAIN new_gedcom_dict
        /\ Poi \in DOMAIN new_trio_dict
        /\ DOMAIN new_gedcom_dict = DOMAIN new_trio_dict

C18_Witness ==
    /\ Returned
    /\ Poi \in DOMAIN new_gedcom_dict
    /\ DOMAIN new_gedcom_dict # DOMAIN PreRegistry
    /\ \E v \in DOMAIN new_trio_dict : v \notin Kept

(* C11: the pruner leaves its input registry and its input parentage table *)
(* unchanged (same keys, same values), whether it returns or raises.       *)
C11_PrunerFrame ==
    [][pc = "loaded" =>
          /\ trio_dict' = trio_dict
          /\ gedcom_dict' = gedcom_dict
          /\ ret' = ret]_vars

\* the pruner returned tables that differ from its inputs
C11_Witness ==
    /\ Returned
    /\ PreTable = trio_dict
    /\ PreRegistry = gedcom_dict
    /\ DOMAIN new_gedcom_dict # DOMAIN gedcom_dict
    /\ \E v \in DOMAIN new_trio_dict : new_trio_dict[v] # trio_dict[v]

\* a further line can be read
CanRead == pc = "reading" /\ nlines < MaxLines

\* everything of the extraction but the position in the input
extraction == <<pc, error, parseState, ret>>

(* C12: a line that does not match the grammar is processed without        *)
(* aborting and leaves the whole parse state unchanged, in whatever state  *)
(* of the extraction it is read.                                           *)
C12_MalformedLineNoOp ==
    CanRead =>
        /\ Dispatch(Malformed) = "skip"
        /\ ENABLED SkipStep(Malformed)
        /\ ~ENABLED (SkipStep(Malformed) /\ ~(UNCHANGED extraction))

\* a state with every part of the parse state off its initial value, in
\* which a malformed line can be read
C12_Witness ==
    /\ CanRead
    /\ ENABLED SkipStep(Malformed)
    /\ current_person # None
    /\ mother # None
    /\ father # None
    /\ poi_ids # <<>>
    /\ adopted # {}
    /\ placeholders_used > 0

\* no INDI line has been read: current_person has never been assigned and
\* gedcom_dict has no entry for it
NoIndiYet == current_person = None /\ None \notin DOMAIN gedcom_dict

(* C20: before any INDI line, a NAME line with data is ignored and leaves  *)
(* the parse state unchanged, whereas a SEX line with data aborts the      *)
(* extraction; after the abort nothing more is read and nothing returned.  *)
C20_AttributeBeforeIndi ==
    /\ (CanRead /\ NoIndiYet) =>
          /\ \A d \in NameData :
                /\ Dispatch(Line(None, "NAME", d)) = "ignored"
                /\ ENABLED IgnoredStep(Line(None, "NAME", d))
                /\ ~ENABLED (IgnoredStep(Line(None, "NAME", d)) /\ ~(UNCHANGED extraction))
          /\ \A d \in SexData :
                /\ ENABLED SexStep(Line(None, "SEX", d))
                /\ ~ENABLED (SexStep(Line(None, "SEX", d)) /\ ~(pc' = "failed" /\ ret' = <<>>))
    /\ pc = "failed" => (ret = <<>> /\ ~ENABLED Next)

\* the SEX line was read before any INDI line and aborted the extraction
C20_Witness ==
    /\ pc = "failed"
    /\ error = "KeyError"
    /\ NoIndiYet
    /\ ret = <<>>

(* C13: last assignment wins. For every id, the parentage entry of the     *)
(* table is the one written by the last line read that assigns it: an INDI *)
(* line opening the id (absent, absent) or a CHIL line that is not skipped *)
(* naming the id (the mother and father of the family after the line).     *)
(* last_assign records exactly those writes, in input order.               *)
C13_LastAssignmentWins ==
    \A id \in DOMAIN last_assign :
        /\ id \in DOMAIN trio_dict
        /\ trio_dict[id] = last_assign[id]

\* the mother recorded by the CHIL line e is the one its family record gives
MotherOfFamily(e) ==
    IF e.fam.wife # None
    THEN e.mother = e.fam.wife
    ELSE e.mother \in e.fam.ph_mother /\ e.mother \in PlaceholderIds

\* the father recorded by the CHIL line e is the one its family record gives
FatherOfFamily(e) ==
    IF e.fam.husb # None
    THEN e.father = e.fam.husb
    ELSE e.father \in e.fam.ph_father /\ e.father \in PlaceholderIds

(* C14: family scoping of parents. After every step, for every CHIL line   *)
(* that was not skipped, the mother is the id of the most recent WIFE line *)
(* read since the most recent FAM line, or, if there is none, a            *)
(* placeholder synthesized since that FAM line, and likewise the father    *)
(* with HUSB; and the step that reads the CHIL line writes exactly this    *)
(* pair as the child's parentage entry.                                    *)
C14_FamilyScoping ==
    [][/\ \A e \in chil_lines' :
             ~e.skipped => MotherOfFamily(e)' /\ FatherOfFamily(e)'
       /\ \A e \in chil_lines' \ chil_lines :
             ~e.skipped => /\ e.id \in DOMAIN trio_dict'
                           /\ trio_dict'[e.id] = <<e.mother, e.father>>]_vars

\* a child of a first family has the mother its WIFE line names; after a FAM
\* line a child of the next family gets a new placeholder, not that mother
C14_Witness ==
    \E e1, e2 \in chil_lines :
        /\ ~e1.skipped /\ ~e2.skipped
        /\ e1.fam.wife = "I1" /\ e1.mother = "I1"
        /\ e1.father = PlaceholderName(1)
        /\ e2.fam.wife = None /\ e2.mother = PlaceholderName(2)
        /\ "I1" \notin DOMAIN gedcom_dict

\* the placeholders of the current family record are the current parents
\* unless a WIFE or HUSB line has replaced them
PlaceholderIsCurrent ==
    /\ fam.ph_mother # {} =>
          IF fam.wife # None THEN mother = fam.wife ELSE mother \in fam.ph_mother
    /\ fam.ph_father # {} =>
          IF fam.husb # None THEN father = fam.husb ELSE father \in fam.ph_father

(* C19: placeholder reuse within a family. Since the most recent FAM line  *)
(* at most one placeholder mother and at most one placeholder father have  *)
(* been synthesized; the counter changes only in a step that reads a CHIL  *)
(* line that is not skipped; a synthesized placeholder stays the current   *)
(* mother or father until a WIFE or HUSB line replaces it; and a step that *)
(* reads a skipped CHIL line leaves the counter, both tables and the       *)
(* current parents unchanged.                                              *)
C19_PlaceholderReuse ==
    [][/\ Cardinality(fam'.ph_mother) <= 1
       /\ Cardinality(fam'.ph_father) <= 1
       /\ PlaceholderIsCurrent'
       /\ placeholders_used' # placeholders_used =>
             \E e \in chil_lines' :
                 /\ ~e.skipped
                 /\ e.fam = fam' /\ e.mother = mother' /\ e.father = father'
                 /\ PlaceholderName(placeholders_used') \in fam'.ph_mother \cup fam'.ph_father
       /\ \A e \in chil_lines' \ chil_lines :
             e.skipped => UNCHANGED <<placeholders_used, gedcom_dict, trio_dict,
                                      mother, father>>]_vars

\* two siblings of one family share the placeholder mother synthesized for the
\* first, and an adopted child of the same family was skipped in between
C19_Witness ==
    \E e1, e2, e3 \in chil_lines :
        /\ ~e1.skipped /\ ~e2.skipped /\ e3.skipped
        /\ e1.id # e2.id
        /\ e1.fam = e2.fam /\ e3.fam = e1.fam
        /\ e1.fam.wife = None
        /\ e1.mother = PlaceholderName(1) /\ e2.mother = PlaceholderName(1)
        /\ fam = e1.fam
        /\ placeholders_used = 2

====
